---- MODULE Spec2Model ----
(***************************************************************************)
(* Model of the client connection core of MPD (src/src/client.c).          *)
(*                                                                         *)
(* Units.  A "byte" of the model is a token (a TLA+ string); a C string is *)
(* a sequence of tokens and strlen is Len.  Protocol words are one token   *)
(* long, so the buffer sizes and the configured caps are small numbers.    *)
(*                                                                         *)
(* Every write(2) / read(2) outcome is a nondeterministic choice; the      *)
(* functions that issue them are modelled as operators returning the SET   *)
(* of client records the call can produce.                                 *)
(***************************************************************************)
EXTENDS Integers, Sequences, FiniteSets, TLC

(***************************************************************************)
(* Bounds of the model.                                                    *)
(***************************************************************************)
\* sizeof(client->buffer), scaled (4096 in the source)
BufferSize == 4
\* sizeof(client->send_buf), scaled (4096 in the source)
SendBufSize == 3
\* configured "max_connections"
MaxConnections == 2
\* configured "max_command_list_size" (in tokens)
MaxCommandListSize == 3
\* configured "max_output_buffer_size" (in tokens)
MaxOutputBufferSize == 20
\* longest output one command of the collaborator writes with client_write
MaxCmdOutput == 2
\* number of lines the peers send in a run of any lines
MaxLines == 1
\* number of lines the peer sends in a run of command-list lines
MaxListLines == 5
\* number of lines the peer sends in a run of idle / noidle lines
MaxIdleLines == 2
\* number of commands that write output in one run
MaxCmdWrites == 1
\* number of connections accepted in one run
MaxAccepts == 2
\* number of manager_idle_add calls in one run
MaxIdleAdds == 2
\* bytes a peer has sent that the server has not read yet
MaxInFlight == 4
\* lines one peer sends in a run with long lines
MaxFrameLines == 3
\* lines one peer sends in a run with idle commands in command lists
MaxIdleListLines == 4

(***************************************************************************)
(* Program constants.                                                      *)
(***************************************************************************)
\* sizeof(struct deferred_buffer) - sizeof(buf->data): the size_t header
DeferredOverhead == 8
COMMAND_RETURN_CLOSE == 20
COMMAND_RETURN_KILL == 10

CLIENT_LIST_MODE_BEGIN == <<"command_list_begin">>
CLIENT_LIST_OK_MODE_BEGIN == <<"command_list_ok_begin">>
CLIENT_LIST_MODE_END == <<"command_list_end">>
\* a line that is an ordinary command
NOIDLE_as_command == <<"no_idle">>
\* the line compared with strcmp in client_process_line
NOIDLE == <<"noidle">>

\* idle_get_names(): the name table of the idle collaborator, in order
idle_names == <<"database", "player">>
NumIdleNames == Len(idle_names)

(***************************************************************************)
(* unsigned bit masks                                                      *)
(***************************************************************************)
Bit(i) == 2 ^ i
HasBit(x, i) == (x \div Bit(i)) % 2 = 1
RECURSIVE MaskOf(_)
MaskOf(S) == IF S = {} THEN 0
             ELSE LET i == CHOOSE j \in S : TRUE IN Bit(i) + MaskOf(S \ {i})
BitsOf(x) == {i \in 0..(NumIdleNames - 1) : HasBit(x, i)}
BitAnd(x, y) == MaskOf(BitsOf(x) \cap BitsOf(y))
BitOr(x, y) == MaskOf(BitsOf(x) \cup BitsOf(y))
Masks == 0..(Bit(NumIdleNames) - 1)

RECURSIVE Flatten(_)
Flatten(ss) == IF ss = <<>> THEN <<>> ELSE Head(ss) \o Flatten(Tail(ss))

RECURSIVE Reverse(_)
Reverse(s) == IF s = <<>> THEN <<>> ELSE Append(Reverse(Tail(s)), Head(s))

(***************************************************************************)
(* struct client.  buffer holds the bufferLength valid bytes, send_buf the *)
(* send_buf_used valid bytes.  Some fields are not in the struct: they     *)
(* record what the client has been through,                                *)
(*   hist         the arguments of all client_write calls, concatenated;   *)
(*   peer         the bytes write(2) has accepted for the peer;            *)
(*   out          the arguments of the client_write calls of this step;    *)
(*   sys          a system call was issued on the client with fd = -1;     *)
(*   list_opened  the mode the open command list was opened with;          *)
(*   list_sent    the lines appended to it, in the order of arrival;       *)
(*   handed       <<list, mode>> as passed to command_process_list.        *)
(***************************************************************************)
bufferLength(c) == Len(c.buffer)
send_buf_used(c) == Len(c.send_buf)

client_is_expired(c) == c.fd < 0

client_set_expired(c) == IF c.fd >= 0 THEN [c EXCEPT !.fd = -1] ELSE c

(***************************************************************************)
(* write(fd, data, n): the outcomes.  ret >= 0 bytes accepted, or -1 with  *)
(* errno.  On a closed descriptor the call fails with EBADF.               *)
(***************************************************************************)
SysWrite(fd, n) ==
    IF fd < 0 THEN {[ret |-> -1, errno |-> "EBADF"]}
    ELSE {[ret |-> k, errno |-> "none"] : k \in 0..n}
         \cup {[ret |-> -1, errno |-> e] : e \in {"EAGAIN", "EINTR", "EPIPE"}}

\* Observation of the output path.  hist and peer are kept without their
\* common prefix: a byte the peer receives that is the next byte of hist is
\* removed from both, so peer is empty exactly when everything the peer has
\* received so far is a prefix of the bytes handed to client_write.
RECURSIVE Matched(_)
Matched(c) ==
    IF c.peer # <<>> /\ c.hist # <<>> /\ Head(c.peer) = Head(c.hist)
    THEN Matched([c EXCEPT !.peer = Tail(@), !.hist = Tail(@)])
    ELSE c

\* the peer receives the first ret bytes of data
Accepted(c, data, o) ==
    IF o.ret > 0
    THEN Matched([c EXCEPT !.peer = @ \o SubSeq(data, 1, o.ret)])
    ELSE c

\* the system call is issued on c.fd
Issue(c) == IF c.fd < 0 THEN [c EXCEPT !.sys = TRUE] ELSE c

(***************************************************************************)
(* client_write_deferred                                                   *)
(***************************************************************************)
RECURSIVE client_write_deferred(_)
client_write_deferred(c) ==
    IF c.deferred_send = <<>> THEN {c}
    ELSE LET buf == Head(c.deferred_send)
             step(o) ==
               LET c1 == Accepted(Issue(c), buf, o) IN
               IF o.ret < 0 THEN
                   \* break; queue not empty
                   {IF o.errno # "EAGAIN" /\ o.errno # "EINTR"
                    THEN client_set_expired(c1) ELSE c1}
               ELSE IF o.ret < Len(buf) THEN
                   {[c1 EXCEPT !.deferred_bytes = @ - o.ret,
                               !.deferred_send =
                                   <<SubSeq(buf, o.ret + 1, Len(buf))>>
                                   \o Tail(c.deferred_send)]}
               ELSE
                   client_write_deferred(
                       [c1 EXCEPT !.deferred_bytes =
                                      @ - (DeferredOverhead + Len(buf)),
                                  !.deferred_send = Tail(@)])
         IN UNION {step(o) : o \in SysWrite(c.fd, Len(buf))}

(***************************************************************************)
(* client_defer_output                                                     *)
(***************************************************************************)
\* a variant that pushes the chunk at the head of the queue
client_defer_output_head(c, data) ==
    LET alloc == DeferredOverhead + Len(data)
        c1 == [c EXCEPT !.deferred_bytes = @ + alloc]
    IN IF c1.deferred_bytes > MaxOutputBufferSize
       THEN client_set_expired(c1)
       ELSE [c1 EXCEPT !.deferred_send = <<data>> \o @]

client_defer_output(c, data) ==
    LET alloc == DeferredOverhead + Len(data)
        c1 == [c EXCEPT !.deferred_bytes = @ + alloc]
    IN IF c1.deferred_bytes > MaxOutputBufferSize
       THEN client_set_expired(c1)
       ELSE [c1 EXCEPT !.deferred_send = Append(@, data)]

(***************************************************************************)
(* client_write_direct                                                     *)
(***************************************************************************)
\* a variant that defers the whole buffer after a partial write
unwritten_whole(data, ret) == data

\* data + ret, length - ret
unwritten(data, ret) == SubSeq(data, ret + 1, Len(data))

\* no call of client_write_direct
NoDirect == [data |-> <<>>, used |-> 0, ret |-> -1, queued |-> <<>>]

\* direct keeps, for the state after the step only, the last call of
\* client_write_direct for the client: its data argument, send_buf_used
\* at the call, what write(2) returned and the deferred queue at its end
client_write_direct(c, data) ==
    LET step(o) ==
          LET c1 == Accepted(Issue(c), data, o)
              c2 == IF o.ret < 0 THEN
                        IF o.errno = "EAGAIN" \/ o.errno = "EINTR"
                        THEN client_defer_output(c1, data)
                        ELSE client_set_expired(c1)
                    ELSE IF o.ret < send_buf_used(c1)
                        THEN client_defer_output(c1, unwritten(data, o.ret))
                        ELSE c1
          IN [c2 EXCEPT !.direct = [data |-> data,
                                    used |-> send_buf_used(c),
                                    ret |-> o.ret,
                                    queued |-> c2.deferred_send]]
    IN {step(o) : o \in SysWrite(c.fd, Len(data))}

(***************************************************************************)
(* client_write_output                                                     *)
(***************************************************************************)
client_write_output(c) ==
    IF client_is_expired(c) \/ send_buf_used(c) = 0 THEN {c}
    ELSE LET after ==
               IF c.deferred_send # <<>>
               THEN client_write_deferred(client_defer_output(c, c.send_buf))
               ELSE client_write_direct(c, c.send_buf)
         IN {[c1 EXCEPT !.send_buf = <<>>] : c1 \in after}

(***************************************************************************)
(* client_write: the loop over the send buffer.  The argument is recorded  *)
(* in hist when the call is made, whatever the call then does with it.     *)
(***************************************************************************)
RECURSIVE client_write_loop(_, _)
client_write_loop(c, buffer) ==
    IF buffer = <<>> \/ client_is_expired(c) THEN {c}
    ELSE LET room == SendBufSize - send_buf_used(c)
             copylen == IF room > Len(buffer) THEN Len(buffer) ELSE room
             c1 == [c EXCEPT !.send_buf = @ \o SubSeq(buffer, 1, copylen)]
             rest == SubSeq(buffer, copylen + 1, Len(buffer))
             flushed == IF send_buf_used(c1) >= SendBufSize
                        THEN client_write_output(c1) ELSE {c1}
         IN UNION {client_write_loop(c2, rest) : c2 \in flushed}

client_write(c, buffer) ==
    LET c0 == [c EXCEPT !.hist = @ \o buffer, !.out = @ \o buffer] IN
    IF client_is_expired(c0) THEN {c0} ELSE client_write_loop(c0, buffer)

client_puts(c, s) == client_write(c, s)

\* vsnprintf of "changed: %s\n": the format's literal parts around the
\* argument; nothing is written when the formatted length is <= 0
FormatChanged(name) == <<"changed: ", name, "\n">>
client_printf_changed(c, name) ==
    LET buffer == FormatChanged(name) IN
    IF Len(buffer) <= 0 THEN {c} ELSE client_write(c, buffer)

\* command_success(): the collaborator's "OK\n"
OK == <<"OK", "\n">>
command_success(c) == client_puts(c, OK)

(***************************************************************************)
(* client_idle_notify.  notes is the observation of the idle protocol:     *)
(*   posted   the classes manager_idle_add posted to the client that no    *)
(*            "changed:" line has reported to it since;                    *)
(*   fresh    the classes posted since the last notification was sent;     *)
(*   nnotify  notifications sent since the client last called idle_wait;   *)
(*   parked   every notification was sent with idle_waiting set and a      *)
(*            non-zero idle_flags & idle_subscriptions.                    *)
(***************************************************************************)
\* a variant that reports every class of flags, subscribed or not
RECURSIVE idle_notify_names_all(_, _, _)
idle_notify_names_all(c, flags, i) ==
    IF i >= NumIdleNames THEN {c}
    ELSE LET cs == IF HasBit(flags, i)
                   THEN client_printf_changed(c, idle_names[i + 1])
                   ELSE {c}
         IN UNION {idle_notify_names_all(c1, flags, i + 1) : c1 \in cs}

RECURSIVE idle_notify_names(_, _, _)
idle_notify_names(c, flags, i) ==
    IF i >= NumIdleNames THEN {c}
    ELSE LET cs == IF HasBit(flags, i) /\ HasBit(c.idle_subscriptions, i)
                   THEN client_printf_changed(c, idle_names[i + 1])
                   ELSE {c}
         IN UNION {idle_notify_names(c1, flags, i + 1) : c1 \in cs}

client_idle_notify(c) ==
    LET flags == c.idle_flags
        c1 == [c EXCEPT
                 !.idle_flags = 0,
                 !.idle_waiting = FALSE,
                 !.posted = MaskOf(BitsOf(@) \
                              (BitsOf(flags) \cap BitsOf(c.idle_subscriptions))),
                 !.fresh = 0,
                 !.nnotify = IF @ < 2 THEN @ + 1 ELSE @,
                 !.parked = @ /\ c.idle_waiting
                              /\ BitAnd(flags, c.idle_subscriptions) # 0]
    IN UNION {client_puts(c2, OK) : c2 \in idle_notify_names(c1, flags, 0)}

(***************************************************************************)
(* client_idle_wait, after its entry assertion: the set of                 *)
(* [c |-> client, ret |-> delivered]                                       *)
(***************************************************************************)
\* a variant that always parks the client
client_idle_wait_parks(c, flags) ==
    {[c |-> [c EXCEPT !.idle_waiting = TRUE,
                      !.idle_subscriptions = flags,
                      !.nnotify = 0],
      ret |-> FALSE]}

client_idle_wait(c, flags) ==
    LET c1 == [c EXCEPT !.idle_waiting = TRUE,
                        !.idle_subscriptions = flags,
                        !.nnotify = 0]
    IN IF BitAnd(c1.idle_flags, c1.idle_subscriptions) # 0
       THEN {[c |-> c2, ret |-> TRUE] : c2 \in client_idle_notify(c1)}
       ELSE {[c |-> c1, ret |-> FALSE]}

\* a variant that keeps the flags only of a client it notifies
idle_add_one_waiting_only(c, flags) ==
    IF client_is_expired(c) THEN {c}
    ELSE LET c0 == [c EXCEPT !.posted = BitOr(@, flags),
                             !.fresh = BitOr(@, flags)]
             c1 == [c0 EXCEPT !.idle_flags = BitOr(@, flags)]
         IN IF c1.idle_waiting
               /\ BitAnd(c1.idle_flags, c1.idle_subscriptions) # 0
            THEN UNION {client_write_output(c2) :
                          c2 \in client_idle_notify(c1)}
            ELSE {c0}

\* a variant that notifies on overlap whether the client waits or not
idle_add_one_any(c, flags) ==
    IF client_is_expired(c) THEN {c}
    ELSE LET c1 == [c EXCEPT !.idle_flags = BitOr(@, flags),
                             !.posted = BitOr(@, flags),
                             !.fresh = BitOr(@, flags)]
         IN IF BitAnd(c1.idle_flags, c1.idle_subscriptions) # 0
            THEN UNION {client_write_output(c2) :
                          c2 \in client_idle_notify(c1)}
            ELSE {c1}

\* client_manager_idle_add: the body of the loop, for one client
idle_add_one(c, flags) ==
    IF client_is_expired(c) THEN {c}
    ELSE LET c1 == [c EXCEPT !.idle_flags = BitOr(@, flags),
                             !.posted = BitOr(@, flags),
                             !.fresh = BitOr(@, flags)]
         IN IF c1.idle_waiting
               /\ BitAnd(c1.idle_flags, c1.idle_subscriptions) # 0
            THEN UNION {client_write_output(c2) :
                          c2 \in client_idle_notify(c1)}
            ELSE {c1}

(***************************************************************************)
(* The state.                                                              *)
(***************************************************************************)
VARIABLES
    clients,                 \* the registry: client slots, head first
    cl,                      \* slot -> struct client
    num_clients,
    client_max_connections,
    io,                      \* the activation of client_manager_io
    sock,                    \* slot -> the peer's end of the connection
    budget,                  \* what the environment may still do
    lock                     \* who holds the main-thread lock

vars == <<clients, cl, num_clients, client_max_connections, io, sock,
          budget, lock>>

Slots == 1..MaxConnections

\* a slot that holds no client
FreeClient ==
    [fd |-> -1, buffer |-> <<>>, bufferPos |-> 0,
     cmd_list |-> <<>>, cmd_list_OK |-> -1, cmd_list_size |-> 0,
     deferred_send |-> <<>>, deferred_bytes |-> 0, send_buf |-> <<>>,
     idle_waiting |-> FALSE, idle_flags |-> 0, idle_subscriptions |-> 0,
     hist |-> <<>>, peer |-> <<>>, out |-> <<>>, sys |-> FALSE,
     list_sent |-> <<>>, list_opened |-> -1, handed |-> <<>>,
     posted |-> 0, fresh |-> 0, nnotify |-> 0, parked |-> TRUE,
     want |-> <<>>, misframed |-> FALSE, direct |-> NoDirect]

\* xcalloc + client_init
client_init(fd) == [FreeClient EXCEPT !.fd = fd]

\* inq: the bytes the peer has sent and the server has not read; "EOF" ends
\* them when the peer has closed its end
NoSock == [inq |-> <<>>]

IoOut == [pc |-> "out", rfds |-> {}, wfds |-> {}, todo |-> <<>>, cur |-> 0,
          start |-> 0, next |-> 0, cmd |-> <<>>, in_list |-> FALSE,
          list_ok |-> -1, cmds |-> <<>>,
          wrote |-> FALSE, waited |-> -1, wait_flags |-> 0, ret |-> -1,
          swept |-> FALSE, late |-> {}, refused |-> FALSE]

Registry == {clients[i] : i \in 1..Len(clients)}

\* What the environment does in a run: the connections the listener gets,
\* the lines the peers send and which lines these are, the connections
\* the peers close, the calls of client_manager_idle_add and the commands
\* that write output.  Six kinds of run: one connection slot with more
\* connections than slots; several clients side by side; one client
\* sending command lists; one client in the idle protocol; one client
\* sending lines as long as the input buffer; one client sending idle
\* commands inside command lists.
Budgets ==
    {[conns |-> 1, accepts |-> MaxAccepts, lines |-> MaxLines,
      idle_adds |-> 0, writes |-> MaxCmdWrites, hangups |-> 1,
      sends |-> "any"],
     [conns |-> MaxConnections, accepts |-> MaxConnections, lines |-> 1,
      idle_adds |-> 1, writes |-> 1, hangups |-> 0, sends |-> "any"],
     [conns |-> 1, accepts |-> 1, lines |-> MaxListLines,
      idle_adds |-> 0, writes |-> 0, hangups |-> 0, sends |-> "list"],
     [conns |-> 1, accepts |-> 1, lines |-> MaxIdleLines,
      idle_adds |-> MaxIdleAdds, writes |-> 0, hangups |-> 0,
      sends |-> "idle"],
     [conns |-> 1, accepts |-> 1, lines |-> MaxFrameLines,
      idle_adds |-> 0, writes |-> 0, hangups |-> 0, sends |-> "frame"],
     [conns |-> 1, accepts |-> 1, lines |-> MaxIdleListLines,
      idle_adds |-> 0, writes |-> 0, hangups |-> 0, sends |-> "idlelist"]}

\* client_manager_init: the configured cap of a command list; one byte
\* more in the runs with idle commands in lists, so that a list of two
\* of them fits
client_max_command_list_size ==
    IF budget.sends = "idlelist" THEN MaxCommandListSize + 1
    ELSE MaxCommandListSize

Init ==
    /\ budget \in Budgets
    /\ clients = <<>>
    /\ cl = [s \in Slots |-> FreeClient]
    /\ num_clients = 0
    /\ client_max_connections = budget.conns
    /\ io = IoOut
    /\ sock = [s \in Slots |-> NoSock]
    /\ lock = "main"

(***************************************************************************)
(* A step works on a copy of the state (a "world") and commits it.         *)
(***************************************************************************)
World ==
    [clients |-> clients,
     cl |-> [s \in Slots |-> [cl[s] EXCEPT !.out = <<>>,
                                            !.direct = NoDirect]],
     num_clients |-> num_clients, io |-> [io EXCEPT !.ret = -1, !.swept = FALSE, !.late = {},
                            !.refused = FALSE],
     sock |-> sock, lock |-> lock]

Commit(w) ==
    /\ clients' = w.clients
    /\ cl' = w.cl
    /\ num_clients' = w.num_clients
    /\ io' = w.io
    /\ sock' = w.sock
    /\ lock' = w.lock

\* The main-thread lock.  The main thread holds it whenever it is not
\* blocked in select(): main_notify_lock() gives it up for the duration of
\* the block and main_notify_unlock() takes it back, waiting for a
\* background thread that holds it.
main_notify_lock(w) == [w EXCEPT !.lock = "free"]

main_notify_unlock(w) == [w EXCEPT !.lock = "main"]

\* a variant of client_manager_io that goes on after select() without the
\* call of line 481
select_returned_no_unlock(w) == w

\* client_manager_io, line 481: select() has returned
select_returned(w) == main_notify_unlock(w)

\* the world with client s, the io activation or the socket of s replaced
Put(w, s, c) ==
    [w EXCEPT !.cl = [t \in Slots |-> IF t = s THEN c ELSE w.cl[t]]]
PutIo(w, i) == [w EXCEPT !.io = i]
PutSock(w, s, q) ==
    [w EXCEPT !.sock = [t \in Slots |-> IF t = s THEN [inq |-> q]
                                        ELSE w.sock[t]]]

RECURSIVE Without(_, _)
Without(seq, x) ==
    IF seq = <<>> THEN <<>>
    ELSE IF Head(seq) = x THEN Without(Tail(seq), x)
    ELSE <<Head(seq)>> \o Without(Tail(seq), x)

\* client_close: unlink, expire, free
client_close(w, s) ==
    [w EXCEPT !.clients = Without(w.clients, s),
              !.num_clients = w.num_clients - 1,
              !.cl = [w.cl EXCEPT ![s] = FreeClient],
              !.sock = [w.sock EXCEPT ![s] = NoSock]]

\* a variant that admits one connection more
client_new_one_more(w, fd, max) ==
    IF w.num_clients > max THEN w
    ELSE LET s == CHOOSE x \in Slots :
                    x \notin {w.clients[i] : i \in 1..Len(w.clients)}
         IN [w EXCEPT !.clients = <<s>> \o w.clients,
                      !.num_clients = w.num_clients + 1,
                      !.cl = [t \in Slots |-> IF t = s THEN client_init(fd)
                                               ELSE w.cl[t]]]

\* client_new, for a connection that accept() returned as descriptor fd
client_new(w, fd, max) ==
    IF w.num_clients >= max THEN w
    ELSE LET s == CHOOSE x \in Slots :
                    /\ x \notin {w.clients[i] : i \in 1..Len(w.clients)}
                    /\ \A y \in Slots :
                         y \notin {w.clients[i] : i \in 1..Len(w.clients)}
                         => x <= y
         IN [w EXCEPT !.clients = <<s>> \o w.clients,
                      !.num_clients = w.num_clients + 1,
                      !.cl = [w.cl EXCEPT ![s] = client_init(fd)]]

\* the descriptor accept() returns: the lowest one that is not open
OpenFds(w) == {w.cl[s].fd : s \in Slots} \ {-1}
AcceptFd(w) == CHOOSE f \in 0..MaxConnections :
                 f \notin OpenFds(w) /\ \A g \in 0..(f - 1) : g \in OpenFds(w)

\* client_manager_register_read_fd / client_manager_register_write_fd
register_read_fd(w) ==
    {w.cl[s].fd : s \in {x \in {w.clients[i] : i \in 1..Len(w.clients)} :
                           /\ ~client_is_expired(w.cl[x])
                           /\ w.cl[x].deferred_send = <<>>}}

register_write_fd(w) ==
    {w.cl[s].fd : s \in {x \in {w.clients[i] : i \in 1..Len(w.clients)} :
                           /\ w.cl[x].fd >= 0
                           /\ ~client_is_expired(w.cl[x])
                           /\ w.cl[x].deferred_send # <<>>}}

\* select(): a client descriptor of the read set is reported when bytes of
\* the peer are waiting or the peer has closed its end
ReadReady(w, fd) ==
    \E s \in Slots : w.cl[s].fd = fd /\ w.sock[s].inq # <<>>

\* the loop of client_manager_io moves to the next client, or returns 0
Advance(w) ==
    IF w.io.todo = <<>> THEN PutIo(w, IoOut)
    ELSE PutIo(w, [IoOut EXCEPT !.pc = "pass",
                                !.rfds = w.io.rfds,
                                !.wfds = w.io.wfds,
                                !.cur = Head(w.io.todo),
                                !.todo = Tail(w.io.todo)])

\* FD_ISSET(fd, set): with fd = -1 the macro reads outside the set
FdIsSet(fd, set) == IF fd < 0 THEN BOOLEAN ELSE {fd \in set}

\* client_manager_io, lines 508-512: the write pass for the current client,
\* then the next client
WritePass(w) ==
    LET s == w.io.cur
        c == w.cl[s]
    IN IF client_is_expired(c) THEN {Advance(w)}
       ELSE UNION {IF b THEN {Advance(Put(w, s, c1)) :
                                c1 \in client_write_deferred(c)}
                        ELSE {Advance(w)} : b \in FdIsSet(c.fd, w.io.wfds)}

\* client_manager_io, lines 497-502: the outcome ret of the read pass
AfterRead(w, ret) ==
    LET s == w.io.cur IN
    IF ret = COMMAND_RETURN_KILL THEN {PutIo(w, [IoOut EXCEPT !.pc = "kill"])}
    ELSE IF ret = COMMAND_RETURN_CLOSE THEN {Advance(client_close(w, s))}
    ELSE WritePass(w)

(***************************************************************************)
(* client_input_received, lines 378-384: client_process_line returned ret  *)
(***************************************************************************)
LineReturn(w, ret) ==
    LET s == w.io.cur IN
    IF ret = COMMAND_RETURN_KILL \/ ret = COMMAND_RETURN_CLOSE
    THEN AfterRead(w, ret)
    ELSE IF client_is_expired(w.cl[s])
    THEN AfterRead(w, COMMAND_RETURN_CLOSE)
    ELSE {PutIo(w, [IoOut EXCEPT !.pc = "lines",
                                 !.rfds = w.io.rfds,
                                 !.wfds = w.io.wfds,
                                 !.todo = w.io.todo,
                                 !.cur = s,
                                 !.start = w.io.next])}

\* client_process_line, lines 343-351: command_process returned ret
CommandReturn(w, ret) ==
    LET s == w.io.cur
        c == w.cl[s]
    IN IF ret = COMMAND_RETURN_CLOSE \/ client_is_expired(c)
       THEN LineReturn(w, COMMAND_RETURN_CLOSE)
       ELSE LET cs == IF ret = 0 THEN command_success(c) ELSE {c}
                ds == UNION {client_write_output(c1) : c1 \in cs}
            IN UNION {LineReturn(Put(w, s, c2), ret) : c2 \in ds}

\* client_process_line, lines 301-311: command_process_list returned ret
ListReturn(w, ret) ==
    LET s == w.io.cur
        c == w.cl[s]
    IN IF ret = COMMAND_RETURN_CLOSE \/ client_is_expired(c)
       THEN LineReturn(w, COMMAND_RETURN_CLOSE)
       ELSE LET cs == IF ret = 0 THEN command_success(c) ELSE {c}
                ds == UNION {client_write_output(c1) : c1 \in cs}
            IN UNION {LineReturn(
                        Put(w, s, [c2 EXCEPT !.cmd_list = <<>>,
                                             !.cmd_list_OK = -1]),
                        ret) : c2 \in ds}

\* a variant that answers the list-opening lines as outside a list
new_cmd_list_ptr_skips_begin(c, line) ==
    IF line \in {CLIENT_LIST_MODE_BEGIN, CLIENT_LIST_OK_MODE_BEGIN} THEN c
    ELSE [c EXCEPT !.cmd_list = <<line>> \o @]

\* new_cmd_list_ptr: g_slist_prepend
new_cmd_list_ptr(c, line) == [c EXCEPT !.cmd_list = <<line>> \o @]

\* a variant that leaves the list as it was built
g_slist_as_built(list) == list

\* g_slist_reverse
g_slist_reverse(list) == Reverse(list)

\* the collaborator is entered with one command line
EnterCommand(w, line, in_list, rest) ==
    PutIo(w, [w.io EXCEPT !.pc = "cmd", !.cmd = line, !.in_list = in_list,
                          !.cmds = rest, !.wrote = FALSE, !.waited = -1,
                          !.wait_flags = 0])

\* a variant that lets every line pass during idle mode
only_noidle_never(c) == FALSE

\* client_process_line, line 277: during idle mode, clients must not send
\* anything except "noidle"
only_noidle(c) == c.idle_waiting

\* a variant of the answer to noidle that delivers the pending events
client_noidle_notifies(c) ==
    UNION {client_write_output(c1) :
             c1 \in client_idle_notify([c EXCEPT !.idle_waiting = FALSE])}

\* client_process_line, lines 265-270: noidle sent by a client that is
\* waiting in idle
client_noidle(c) ==
    UNION {client_write_output(c1) :
             c1 \in command_success([c EXCEPT !.idle_waiting = FALSE])}

(***************************************************************************)
(* client_process_line(client, line), up to the call of the collaborator   *)
(***************************************************************************)
client_process_line(w, line) ==
    LET s == w.io.cur
        c == w.cl[s]
    IN IF line = NOIDLE THEN
           IF c.idle_waiting
           THEN UNION {LineReturn(Put(w, s, c2), 0) : c2 \in client_noidle(c)}
           ELSE LineReturn(w, 0)
       ELSE IF only_noidle(c) THEN
           LineReturn(w, COMMAND_RETURN_CLOSE)
       ELSE IF c.cmd_list_OK >= 0 THEN
           IF line = CLIENT_LIST_MODE_END
           THEN LET rev == g_slist_reverse(c.cmd_list)
                    w1 == PutIo(Put(w, s, [c EXCEPT
                                             !.cmd_list = rev,
                                             !.handed = <<rev, c.cmd_list_OK>>]),
                               [w.io EXCEPT !.list_ok = c.cmd_list_OK])
                IN IF rev = <<>> THEN ListReturn(w1, 0)
                   ELSE {EnterCommand(w1, Head(rev), TRUE, Tail(rev))}
           ELSE LET len == Len(line) + 1
                    c1 == [c EXCEPT !.cmd_list_size = @ + len]
                IN IF c1.cmd_list_size > client_max_command_list_size
                   THEN LineReturn(Put(w, s, c1), COMMAND_RETURN_CLOSE)
                   ELSE LineReturn(
                          Put(w, s, [new_cmd_list_ptr(c1, line) EXCEPT
                                       !.list_sent = Append(@, line)]), 1)
       ELSE IF line = CLIENT_LIST_MODE_BEGIN THEN
           LineReturn(Put(w, s, [c EXCEPT !.cmd_list_OK = 0,
                                          !.list_sent = <<>>,
                                          !.list_opened = 0,
                                          !.handed = <<>>]), 1)
       ELSE IF line = CLIENT_LIST_OK_MODE_BEGIN THEN
           LineReturn(Put(w, s, [c EXCEPT !.cmd_list_OK = 1,
                                          !.list_sent = <<>>,
                                          !.list_opened = 1,
                                          !.handed = <<>>]), 1)
       ELSE {EnterCommand(w, line, FALSE, <<>>)}

(***************************************************************************)
(* client_input_received: the loop over the lines of the buffer, one line  *)
(* a step; io.start is the offset of start in the buffer                   *)
(***************************************************************************)
Newlines(c, start) ==
    {p \in (start + 1)..Len(c.buffer) : c.buffer[p] = "\n"}

\* memchr(start, '\n', ...)
FirstNewline(c, start) ==
    CHOOSE p \in Newlines(c, start) : \A q \in Newlines(c, start) : p <= q

\* a variant that leaves the "\r" in the line
LineEnd_keeps_cr(c, start) == FirstNewline(c, start)

\* if (newline > start && newline[-1] == '\r') --newline
LineEnd(c, start) ==
    LET nl == FirstNewline(c, start)
    IN IF nl - 1 > start /\ c.buffer[nl - 1] = "\r" THEN nl - 1 ELSE nl

\* the C string at start once *newline = 0 is written
LineAt(c, start) == SubSeq(c.buffer, start + 1, LineEnd(c, start) - 1)

client_input_line(w) ==
    LET s == w.io.cur
        c == w.cl[s]
        start == w.io.start
        nl == FirstNewline(c, start)
        newline == LineEnd(c, start)
        line == LineAt(c, start)
        \* *newline = 0
        c1 == [c EXCEPT !.buffer = [c.buffer EXCEPT ![newline] = "NUL"],
                        !.want = IF @ = <<>> THEN @ ELSE Tail(@),
                        !.misframed = @ \/ c.want = <<>>
                                        \/ Head(c.want) # line]
        w1 == PutIo(Put(w, s, c1), [w.io EXCEPT !.next = nl])
    IN client_process_line(w1, line)

\* lines 387-407: no further newline
client_input_rest(w) ==
    LET s == w.io.cur
        c == [w.cl[s] EXCEPT !.bufferPos = w.io.start]
    IN IF bufferLength(c) = BufferSize
       THEN IF c.bufferPos = 0
            THEN AfterRead(Put(w, s, c), COMMAND_RETURN_CLOSE)
            ELSE AfterRead(
                   Put(w, s, [c EXCEPT !.buffer = SubSeq(c.buffer,
                                                         c.bufferPos + 1,
                                                         Len(c.buffer)),
                                       !.bufferPos = 0]), 0)
       ELSE AfterRead(Put(w, s, c), 0)

(***************************************************************************)
(* client_read: read(2) into the free part of the buffer                   *)
(***************************************************************************)
Min(a, b) == IF a < b THEN a ELSE b

client_read(w) ==
    LET s == w.io.cur
        c == w.cl[s]
        inq == w.sock[s].inq
        room == BufferSize - bufferLength(c)
        avail == IF "EOF" \in {inq[i] : i \in 1..Len(inq)}
                 THEN Len(inq) - 1 ELSE Len(inq)
        received(n) ==
            PutIo(PutSock(Put(w, s, [c EXCEPT !.buffer =
                                                c.buffer \o SubSeq(inq, 1, n)]),
                          s, SubSeq(inq, n + 1, Len(inq))),
                  [w.io EXCEPT !.pc = "lines", !.start = c.bufferPos])
    IN IF c.fd < 0
       THEN AfterRead(Put(w, s, Issue(c)), COMMAND_RETURN_CLOSE)
       ELSE {received(n) : n \in 1..Min(room, avail)}
            \cup AfterRead(w, 0)                       \* EINTR
            \cup AfterRead(w, COMMAND_RETURN_CLOSE)    \* end of file, error

(***************************************************************************)
(* client_manager_io                                                       *)
(***************************************************************************)
\* lines 473-479: the descriptor sets are built and the main thread gives
\* up the lock to block in select()
ManagerIoEnter ==
    /\ io.pc = "out"
    /\ LET w == World
       IN Commit(main_notify_lock(
                   PutIo(w, [IoOut EXCEPT !.pc = "select",
                                          !.rfds = register_read_fd(w),
                                          !.wfds = register_write_fd(w)])))
    /\ UNCHANGED <<client_max_connections, budget>>

\* lines 480-486: select() was interrupted: return 0
ManagerIoEintr ==
    /\ io.pc = "select"
    /\ lock = "free"
    /\ Commit(select_returned(PutIo(World, IoOut)))
    /\ UNCHANGED <<client_max_connections, budget>>

\* lines 480-494: select() returns the descriptors that are ready, the main
\* thread takes the lock back, getConnections() accepts a connection, and
\* the pass starts with the first client.  acc: the listener has a
\* connection to accept.  io.refused keeps, for the state after this step
\* only, that client_new closed the new descriptor.
ManagerIoSelect ==
    /\ io.pc = "select"
    /\ lock = "free"
    /\ \E acc \in BOOLEAN, wready \in SUBSET io.wfds :
         /\ acc => budget.accepts > 0
         /\ LET w0 == select_returned(World)
                rready == {fd \in io.rfds : ReadReady(w0, fd)}
                w1 == IF acc
                      THEN client_new(w0, AcceptFd(w0), client_max_connections)
                      ELSE w0
                w2 == PutIo(w1, [IoOut EXCEPT !.rfds = rready,
                                              !.wfds = wready,
                                              !.todo = w1.clients])
                w3 == Advance(w2)
                \* xclose(fd) in client_new
                refused == acc /\ w1.num_clients = w0.num_clients
            IN /\ Commit(PutIo(w3, [w3.io EXCEPT !.refused = refused]))
               /\ budget' = [budget EXCEPT
                               !.accepts = IF acc THEN @ - 1 ELSE @]
    /\ UNCHANGED client_max_connections

\* line 495 for the current client: client_read, or on to the write pass
IoVisit ==
    /\ io.pc = "pass"
    /\ LET w == World
           nexts == UNION {IF b THEN client_read(w) ELSE WritePass(w) :
                             b \in FdIsSet(w.cl[io.cur].fd, io.rfds)}
       IN \E w1 \in nexts : Commit(w1)
    /\ UNCHANGED <<client_max_connections, budget>>

\* one pass of the loop of client_input_received
IoLine ==
    /\ io.pc = "lines"
    /\ LET w == World
           nexts == IF Newlines(w.cl[io.cur], io.start) # {}
                    THEN client_input_line(w)
                    ELSE client_input_rest(w)
       IN \E w1 \in nexts : Commit(w1)
    /\ UNCHANGED <<client_max_connections, budget>>

(***************************************************************************)
(* The command collaborator (command_process, command_process_list): what  *)
(* it does with the client between its call and its return.                *)
(***************************************************************************)
\* the bytes a command writes: each differs from the bytes before it that
\* the peer has not received yet
DataTok == <<"d1", "d2", "d3", "d4", "d5">>
Data(c, n) ==
    LET k == Len(c.hist) % Len(DataTok)
    IN SubSeq(DataTok \o DataTok, k + 1, k + n)

IDLE == <<"idle">>
LIST_OK == <<"list_OK", "\n">>
Returns == {0, 1, COMMAND_RETURN_CLOSE, COMMAND_RETURN_KILL}

\* the command writes n bytes with client_write
CmdWrite ==
    /\ io.pc = "cmd"
    /\ io.cmd # IDLE
    /\ ~io.wrote
    /\ budget.writes > 0
    /\ \E n \in 1..MaxCmdOutput :
         LET w == World
             s == io.cur
             c == w.cl[s]
         IN \E c1 \in client_write(c, Data(c, n)) :
              Commit(PutIo(Put(w, s, c1), [w.io EXCEPT !.wrote = TRUE]))
    /\ budget' = [budget EXCEPT !.writes = @ - 1]
    /\ UNCHANGED client_max_connections

\* the "idle" command calls client_idle_wait(client, flags)
CmdIdleWait ==
    /\ io.pc = "cmd"
    /\ io.cmd = IDLE
    /\ io.waited < 0
    /\ \E flags \in Masks \ {0} :
         LET w == World
             s == io.cur
             c == w.cl[s]
         IN IF c.idle_waiting
            THEN \* assert(!client->idle_waiting)
                 Commit(PutIo(w, [IoOut EXCEPT !.pc = "abort"]))
            ELSE \E r \in client_idle_wait(c, flags) :
                   Commit(PutIo(Put(w, s, r.c),
                                [w.io EXCEPT
                                   !.waited = IF r.ret THEN 1 ELSE 0,
                                   !.wait_flags = flags]))
    /\ UNCHANGED <<client_max_connections, budget>>

\* command_process_list after an entry returned ret: stop, or the same
\* with the next entry
ListEntryReturn(w, ret) ==
    LET s == w.io.cur
        c == w.cl[s]
    IN IF ret # 0 \/ client_is_expired(c) THEN ListReturn(w, ret)
       ELSE LET cs == IF w.io.list_ok = 1 THEN client_puts(c, LIST_OK)
                      ELSE {c}
            IN UNION {LET w1 == Put(w, s, c1) IN
                      IF w.io.cmds = <<>> THEN ListReturn(w1, 0)
                      ELSE {EnterCommand(w1, Head(w.io.cmds), TRUE,
                                         Tail(w.io.cmds))} : c1 \in cs}

\* the command returns ret; "idle" returns 1 after client_idle_wait.
\* io.ret keeps, for the state after this step only, what it returned.
CmdReturn ==
    /\ io.pc = "cmd"
    /\ \E ret \in Returns :
         /\ io.cmd = IDLE => (io.waited >= 0 /\ ret = 1)
         /\ LET w == World
                nexts == IF io.in_list THEN ListEntryReturn(w, ret)
                         ELSE CommandReturn(w, ret)
            IN \E w1 \in nexts : Commit(PutIo(w1, [w1.io EXCEPT !.ret = ret]))
    /\ UNCHANGED <<client_max_connections, budget>>

(***************************************************************************)
(* client_manager_idle_add(flags)                                          *)
(***************************************************************************)
RECURSIVE idle_add_loop(_, _, _)
idle_add_loop(w, todo, flags) ==
    IF todo = <<>> THEN {w}
    ELSE LET s == Head(todo) IN
         UNION {idle_add_loop(Put(w, s, c1), Tail(todo), flags) :
                  c1 \in idle_add_one(w.cl[s], flags)}

\* a background thread takes the main-thread lock and calls
\* client_manager_idle_add(flags)
ManagerIdleAdd ==
    /\ lock = "free"
    /\ budget.idle_adds > 0
    /\ \E flags \in Masks \ {0} :
         /\ \E w1 \in idle_add_loop(World, clients, flags) :
              Commit([w1 EXCEPT !.lock = "background"])
    /\ budget' = [budget EXCEPT !.idle_adds = @ - 1]
    /\ UNCHANGED client_max_connections

\* the background thread gives the lock up
BackgroundUnlock ==
    /\ lock = "background"
    /\ Commit([World EXCEPT !.lock = "free"])
    /\ UNCHANGED <<client_max_connections, budget>>

(***************************************************************************)
(* client_manager_expire.  late: the clients whose lastTime is more than   *)
(* client_timeout ago.                                                     *)
(***************************************************************************)
\* a variant of the sweep that has no exception for idle clients
RECURSIVE expire_loop_idle_too(_, _, _)
expire_loop_idle_too(w, todo, late) ==
    IF todo = <<>> THEN w
    ELSE LET s == Head(todo)
         IN IF client_is_expired(w.cl[s]) \/ s \in late
            THEN expire_loop_idle_too(client_close(w, s), Tail(todo), late)
            ELSE expire_loop_idle_too(w, Tail(todo), late)

\* the loop of client_manager_expire; late: the clients for which
\* time(NULL) - lastTime > client_timeout when the loop looks at them
RECURSIVE expire_loop(_, _, _)
expire_loop(w, todo, late) ==
    IF todo = <<>> THEN w
    ELSE LET s == Head(todo)
             c == w.cl[s]
         IN IF client_is_expired(c)
            THEN expire_loop(client_close(w, s), Tail(todo), late)
            ELSE IF ~c.idle_waiting /\ s \in late
            THEN expire_loop(client_close(w, s), Tail(todo), late)
            ELSE expire_loop(w, Tail(todo), late)

\* any time may pass between two calls, so any client may have timed out;
\* io.swept and io.late keep, for the state after this step only, that the
\* sweep ran and which clients had timed out
ManagerExpire ==
    /\ io.pc = "out"
    /\ clients # <<>>
    /\ \E late \in SUBSET Registry :
         LET w1 == expire_loop(World, clients, late)
         IN Commit(PutIo(w1, [w1.io EXCEPT !.swept = TRUE, !.late = late]))
    /\ UNCHANGED <<client_max_connections, budget>>

(***************************************************************************)
(* client_manager_deinit                                                   *)
(***************************************************************************)
RECURSIVE client_close_all(_, _)
client_close_all(w, todo) ==
    IF todo = <<>> THEN [w EXCEPT !.num_clients = 0]
    ELSE client_close_all(client_close(w, Head(todo)), Tail(todo))

ManagerDeinit ==
    /\ io.pc \in {"out", "kill"}
    /\ client_max_connections # 0
    /\ Commit(PutIo(client_close_all(World, clients), IoOut))
    /\ client_max_connections' = 0
    /\ UNCHANGED budget

(***************************************************************************)
(* The peers.  The server looks at a connection in select() and in        *)
(* read(); what a peer sends while the server is inside client_manager_io  *)
(* it could as well have sent before, so the peers act between the calls.  *)
(***************************************************************************)
Lines == {<<"noidle">>, CLIENT_LIST_MODE_BEGIN, CLIENT_LIST_OK_MODE_BEGIN,
          CLIENT_LIST_MODE_END, IDLE, <<"ping">>, <<>>}

\* payload bytes, and a line of n of them
Bytes == <<"a", "b", "c", "d", "e", "f", "g", "h">>
Fill(n) == SubSeq(Bytes, 1, n)

\* the line a peer means by what it sends: the bytes before "\n", without
\* one "\r" at their end
Meant(bytes) ==
    LET body == SubSeq(bytes, 1, Len(bytes) - 1)
    IN IF body # <<>> /\ body[Len(body)] = "\r"
       THEN SubSeq(body, 1, Len(body) - 1) ELSE body

\* bytes a peer may have sent that the server has not read
InFlight(kind) == IF kind = "frame" THEN 2 * BufferSize ELSE MaxInFlight

\* what a peer sends at once: a line and its "\n", one of them with "\r\n"
Sends(kind) ==
    IF kind = "idlelist"
    THEN {line \o <<"\n">> : line \in {CLIENT_LIST_MODE_BEGIN,
            CLIENT_LIST_MODE_END, IDLE, <<>>}}
    ELSE IF kind = "frame"
    THEN {line \o <<"\n">> : line \in {Fill(BufferSize - 1), Fill(BufferSize),
                                       <<"a">>, <<"b", "\r">>}}
    ELSE IF kind = "list"
    THEN {line \o <<"\n">> : line \in {CLIENT_LIST_OK_MODE_BEGIN,
            CLIENT_LIST_MODE_END, <<"noidle">>, <<>>}}
    ELSE IF kind = "idle"
    THEN {line \o <<"\n">> : line \in {IDLE, <<"noidle">>, <<"ping">>}}
    ELSE {line \o <<"\n">> : line \in Lines} \cup {<<"ping", "\r", "\n">>}

\* the peer of client s sends a line
PeerSend ==
    /\ io.pc = "out"
    /\ budget.lines > 0
    /\ \E s \in Registry, bytes \in Sends(budget.sends) :
         /\ cl[s].fd >= 0
         /\ Len(sock[s].inq) + Len(bytes) <= InFlight(budget.sends)
         /\ "EOF" \notin {sock[s].inq[i] : i \in 1..Len(sock[s].inq)}
         /\ LET w == World
                c == [w.cl[s] EXCEPT !.want = Append(@, Meant(bytes))]
            IN Commit(PutSock(Put(w, s, c), s, sock[s].inq \o bytes))
    /\ budget' = [budget EXCEPT !.lines = @ - 1]
    /\ UNCHANGED client_max_connections

\* the peer of client s closes its end
PeerHangup ==
    /\ io.pc = "out"
    /\ budget.hangups > 0
    /\ \E s \in Registry :
         /\ cl[s].fd >= 0
         /\ "EOF" \notin {sock[s].inq[i] : i \in 1..Len(sock[s].inq)}
         /\ Commit(PutSock(World, s, Append(sock[s].inq, "EOF")))
    /\ budget' = [budget EXCEPT !.hangups = @ - 1]
    /\ UNCHANGED client_max_connections

Next ==
    \/ ManagerIoEnter
    \/ ManagerIoEintr
    \/ ManagerIoSelect
    \/ IoVisit
    \/ IoLine
    \/ CmdWrite
    \/ CmdIdleWait
    \/ CmdReturn
    \/ ManagerIdleAdd
    \/ BackgroundUnlock
    \/ ManagerExpire
    \/ ManagerDeinit
    \/ PeerSend
    \/ PeerHangup

Spec == Init /\ [][Next]_vars

(***************************************************************************)
(* Properties.                                                             *)
(***************************************************************************)
\* the bytes of the deferred chunks in queue order, then the send buffer
Pending(c) == Flatten(c.deferred_send) \o c.send_buf

\* C1 -- Output ordering.  For every client of the registry the bytes the
\* peer has received are a prefix of the concatenation of all client_write
\* arguments in call order (peer = <<>> after the common prefix is removed),
\* and while the client is not expired the rest of that concatenation is
\* exactly the deferred chunks in queue order followed by the used part of
\* send_buf: no byte is dropped, duplicated or reordered.
C1_OutputOrdering ==
    \A s \in Registry :
        /\ cl[s].peer = <<>>
        /\ ~client_is_expired(cl[s]) => Pending(cl[s]) = cl[s].hist

\* a live client with two deferred chunks, the first one partly written,
\* and bytes in send_buf
C1_Witness ==
    \E s \in Registry :
        /\ ~client_is_expired(cl[s])
        /\ Len(cl[s].deferred_send) >= 2
        /\ Len(cl[s].deferred_send[1]) < Len(cl[s].deferred_send[2])
        /\ cl[s].send_buf # <<>>

\* the accounted size of the chunks in the deferred queue
RECURSIVE QueuedBytes(_)
QueuedBytes(q) ==
    IF q = <<>> THEN 0
    ELSE DeferredOverhead + Len(Head(q)) + QueuedBytes(Tail(q))

\* C2 -- After every public operation (client_manager_io is not running,
\* or is blocked in select()), for every client of the registry
\* deferred_bytes is the sum of (overhead + size) over the chunks in its
\* deferred queue.
C2_DeferredBytesIsSum ==
    io.pc \in {"out", "select"} =>
        \A s \in Registry :
            cl[s].deferred_bytes = QueuedBytes(cl[s].deferred_send)

\* C3 -- After every public operation, for every client of the registry
\* deferred_bytes <= max_output_buffer_size.
C3_DeferredBytesBounded ==
    io.pc \in {"out", "select"} =>
        \A s \in Registry : cl[s].deferred_bytes <= MaxOutputBufferSize

\* the total of (strlen + 1) over the command strings of a list
RECURSIVE ListBytes(_)
ListBytes(list) ==
    IF list = <<>> THEN 0 ELSE Len(Head(list)) + 1 + ListBytes(Tail(list))

\* C4 -- For every client of the registry, between processed lines (no
\* command is running): whenever the command-list mode is off
\* (cmd_list_OK < 0), cmd_list is empty and cmd_list_size = 0.
C4_ListModeOffIsEmpty ==
    io.pc # "cmd" =>
        \A s \in Registry :
            cl[s].cmd_list_OK < 0 =>
                cl[s].cmd_list = <<>> /\ cl[s].cmd_list_size = 0

\* the line the next pass of client_input_received hands to
\* client_process_line is appended to the open command list of client s
Accumulates(s) ==
    /\ io.pc = "lines"
    /\ io.cur = s
    /\ Newlines(cl[s], io.start) # {}
    /\ ~cl[s].idle_waiting
    /\ cl[s].cmd_list_OK >= 0
    /\ LineAt(cl[s], io.start) \notin {NOIDLE, CLIENT_LIST_MODE_END}

\* C5 -- Command-list size cap.  A line appended in list mode is accepted
\* (the client stays and the line is queued) exactly when the total of
\* (strlen + 1) over the lines queued in the current list, the new line
\* included, is <= max_command_list_size; this for every list of a
\* connection.
C5_ListSizeCap ==
    [][\A s \in Slots :
         Accumulates(s) =>
            LET line == LineAt(cl[s], io.start)
                total == ListBytes(cl[s].cmd_list) + Len(line) + 1
            IN (/\ s \in Registry'
                /\ ~client_is_expired(cl'[s])
                /\ cl'[s].cmd_list = <<line>> \o cl[s].cmd_list)
               <=> total <= client_max_command_list_size]_vars

\* C6 -- Command-list ordering.  The list handed to command_process_list
\* when command_list_end is processed holds exactly the lines accumulated
\* since the list was opened, in the order they were sent, and is run in
\* the mode the list was opened with.
C6_ListOrder ==
    \A s \in Registry :
        cl[s].handed # <<>> =>
            /\ cl[s].handed[1] = cl[s].list_sent
            /\ cl[s].handed[2] = cl[s].list_opened

\* a verbose list of two different lines has been handed over
C6_Witness ==
    \E s \in Registry :
        /\ cl[s].handed # <<>>
        /\ cl[s].handed[2] = 1
        /\ Len(cl[s].handed[1]) = 2
        /\ cl[s].handed[1][1] # cl[s].handed[1][2]

\* the notification for the classes of mask: the "changed:" lines in the
\* order of the name table, then OK
RECURSIVE ChangedLines(_, _)
ChangedLines(mask, i) ==
    IF i >= NumIdleNames THEN <<>>
    ELSE (IF HasBit(mask, i) THEN FormatChanged(idle_names[i + 1]) ELSE <<>>)
         \o ChangedLines(mask, i + 1)
Notification(mask) == ChangedLines(mask, 0) \o OK

\* bytes holds the "changed:" line of class i
Reports(bytes, i) ==
    \E k \in 1..Len(bytes) :
        SubSeq(bytes, k, k + 2) = FormatChanged(idle_names[i + 1])

\* this step is the call client_idle_wait(client s, io.wait_flags')
IdleWaitStep(s) ==
    /\ io.pc = "cmd" /\ io.cmd = IDLE /\ io.cur = s
    /\ io.waited < 0 /\ io'.waited >= 0

C8_OneNotificationPerIdle ==
    \A s \in Registry : cl[s].parked /\ cl[s].nnotify <= 1

\* a client that was notified and is not idle any more has accumulated
\* the flags of a later client_manager_idle_add without output
C8_Witness ==
    \E s \in Registry :
        /\ cl[s].nnotify = 1 /\ ~cl[s].idle_waiting
        /\ BitAnd(cl[s].idle_flags, cl[s].idle_subscriptions) # 0
        /\ cl[s].out = <<>>

\* this step is a call of client_manager_idle_add
IdleAddStep == budget'.idle_adds < budget.idle_adds

\* C9 -- client_manager_idle_add(flags).  For every live client the flags
\* are OR'ed into idle_flags; a client that is idle_waiting with
\* idle_flags & idle_subscriptions non-zero is sent, within the call, the
\* "changed:" line of exactly each class of that overlap in name-table
\* order and then OK, its send buffer is flushed, idle_flags becomes 0 and
\* idle_waiting false; any other client gets no output and keeps the flags.
C9_IdleAdd ==
    [][IdleAddStep =>
         \E flags \in Masks \ {0} :
           \A s \in Registry :
             ~client_is_expired(cl[s]) =>
               LET all == BitOr(cl[s].idle_flags, flags)
                   overlap == BitAnd(all, cl[s].idle_subscriptions)
               IN IF cl[s].idle_waiting /\ overlap # 0
                  THEN /\ cl'[s].out = Notification(overlap)
                       /\ cl'[s].send_buf = <<>>
                       /\ cl'[s].idle_flags = 0
                       /\ ~cl'[s].idle_waiting
                  ELSE /\ cl'[s].out = <<>>
                       /\ cl'[s].idle_flags = all
                       /\ cl'[s].idle_waiting = cl[s].idle_waiting
                       /\ cl'[s].hist = cl[s].hist]_vars

\* one call has notified an idle client and left its flags with another
C9_Witness ==
    /\ lock = "background"
    /\ \E s, t \in Registry :
         /\ cl[s].out # <<>> /\ cl[s].out = Notification(cl[s].idle_subscriptions)
         /\ cl[t].out = <<>> /\ cl[t].idle_flags # 0 /\ ~client_is_expired(cl[t])

\* C10 -- client_idle_wait(client, flags).  With idle_flags & flags # 0 at
\* entry it returns true, has sent the notification for that overlap and
\* leaves idle_flags = 0 and idle_waiting = false; with
\* idle_flags & flags = 0 it returns false, sends nothing and leaves
\* idle_waiting = true, idle_subscriptions = flags and idle_flags as it was.
C10_IdleWait ==
    [][\A s \in Slots :
         IdleWaitStep(s) =>
            LET flags == io'.wait_flags
                overlap == BitAnd(cl[s].idle_flags, flags)
            IN IF overlap # 0
               THEN /\ io'.waited = 1
                    /\ cl'[s].out = Notification(overlap)
                    /\ cl'[s].idle_flags = 0
                    /\ ~cl'[s].idle_waiting
               ELSE /\ io'.waited = 0
                    /\ cl'[s].out = <<>>
                    /\ cl'[s].idle_waiting
                    /\ cl'[s].idle_subscriptions = flags
                    /\ cl'[s].idle_flags = cl[s].idle_flags]_vars

\* client_idle_wait has parked a client that has a pending class outside
\* the mask of the call
C10_Witness ==
    \E s \in Registry :
        /\ io.pc = "cmd" /\ io.cmd = IDLE /\ io.cur = s /\ io.waited = 0
        /\ cl[s].idle_waiting /\ cl[s].idle_flags # 0
        /\ cl[s].idle_subscriptions = io.wait_flags

(***************************************************************************)
(* The lines of one client as client_process_line gets them.               *)
(***************************************************************************)
\* client_input_received is about to hand a line of client s to
\* client_process_line
LineStep(s) ==
    /\ io.pc = "lines"
    /\ io.cur = s
    /\ Newlines(cl[s], io.start) # {}

\* the line it hands over
LineOf(s) == LineAt(cl[s], io.start)

\* C11: while idle_waiting is set, a noidle line clears idle_waiting,
\* writes OK and nothing else, flushes the send buffer and leaves
\* idle_flags as they were (or the write fails and the client is closed);
\* any other line is not passed to the command collaborator, is appended
\* to no command list, and the client is closed.
C11_IdleAcceptsOnlyNoidle ==
    [][\A s \in Slots :
         LineStep(s) /\ cl[s].idle_waiting =>
           IF LineOf(s) = <<"noidle">>
           THEN \/ s \notin Registry'
                \/ /\ s \in Registry'
                   /\ ~cl'[s].idle_waiting
                   /\ cl'[s].out = <<"OK", "\n">>
                   /\ cl'[s].send_buf = <<>>
                   /\ cl'[s].idle_flags = cl[s].idle_flags
                   /\ cl'[s].cmd_list = cl[s].cmd_list
                   /\ io'.pc = "lines"
           ELSE /\ s \notin Registry'
                /\ cl'[s] = FreeClient
                /\ io'.pc # "cmd"]_vars

\* a client that sent idle and noidle in one packet was parked by idle and
\* has just been answered OK for noidle
C11_Witness ==
    /\ io.pc = "lines"
    /\ io.cur \in Registry
    /\ cl[io.cur].buffer = <<"idle", "NUL", "noidle", "NUL">>
    /\ io.start = 4
    /\ cl[io.cur].out = <<"OK", "\n">>
    /\ ~cl[io.cur].idle_waiting

\* the fields of a client other than the input buffer and the record of
\* what it was handed
ClientState(c) ==
    <<c.fd, c.cmd_list_OK, c.cmd_list, c.cmd_list_size, c.idle_waiting,
      c.idle_flags, c.idle_subscriptions, c.send_buf, c.deferred_send,
      c.deferred_bytes, c.hist, c.peer>>

\* C12: when idle_waiting is false, processing a noidle line writes no
\* output and leaves the client's command-list mode, cmd_list,
\* cmd_list_size, idle_flags, idle_subscriptions, send buffer and deferred
\* queue unchanged, in Normal state and inside an open command list; the
\* client stays connected and the collaborator is not entered.
C12_NoidleOutsideIdle ==
    [][\A s \in Slots :
         LineStep(s) /\ ~cl[s].idle_waiting /\ LineOf(s) = <<"noidle">> =>
           /\ s \in Registry'
           /\ cl'[s].out = <<>>
           /\ ClientState(cl'[s]) = ClientState(cl[s])
           /\ io'.pc = "lines"]_vars

\* noidle has just been processed inside an open command list that
\* already holds a line
C12_Witness ==
    /\ io.pc = "lines"
    /\ io.cur \in Registry
    /\ io.start >= 2
    /\ cl[io.cur].buffer[io.start - 1] = "noidle"
    /\ cl[io.cur].buffer[io.start] = "NUL"
    /\ cl[io.cur].cmd_list_OK >= 0
    /\ cl[io.cur].cmd_list # <<>>

\* C13: when the command collaborator returns COMMAND_RETURN_KILL for a
\* dispatched line or for an entry of a command list, the call of
\* client_manager_io in progress returns COMMAND_RETURN_KILL, whatever
\* happened to the client's output during the command.
C13_KillStopsLoop ==
    io.ret = COMMAND_RETURN_KILL => io.pc = "kill"

\* C14: a client of the registry that is expired (fd < 0) has not been the
\* target of a read or write system call, and no descriptor set of
\* client_manager_io holds a descriptor below 0.
C14_ExpiredNotTouched ==
    /\ \A s \in Registry : ~cl[s].sys
    /\ \A fd \in io.rfds \cup io.wfds : fd >= 0

\* the clients one sweep has to close
SweepCloses(s, late) ==
    \/ client_is_expired(cl[s])
    \/ ~cl[s].idle_waiting /\ s \in late

\* C15: one call of client_manager_expire removes from the registry and
\* frees every client that is expired and every live client that is not
\* idle_waiting and has timed out, closes no other client (a live client
\* that is idle_waiting stays however long it was inactive), leaves the
\* other clients as they were, and leaves no expired client in the
\* registry.
C15_ExpirySweep ==
    [][io'.swept =>
         /\ clients' = SelectSeq(clients,
                                 LAMBDA s : ~SweepCloses(s, io'.late))
         /\ num_clients' = Len(clients')
         /\ \A s \in Registry :
              IF SweepCloses(s, io'.late)
              THEN cl'[s] = FreeClient
              ELSE cl'[s] = [cl[s] EXCEPT !.out = <<>>,
                                           !.direct = NoDirect]
         /\ \A s \in Registry' : ~client_is_expired(cl'[s])]_vars

\* a sweep has just closed a client that had timed out and kept one that
\* had timed out while waiting in idle
C15_Witness ==
    /\ io.swept
    /\ \E s \in io.late : s \in Registry /\ cl[s].idle_waiting
    /\ \E s \in io.late : s \notin Registry

\* the registry holds each client once
NoDuplicates(seq) ==
    \A i, j \in 1..Len(seq) : seq[i] = seq[j] => i = j

ConnectionCount ==
    /\ num_clients = Len(clients)
    /\ NoDuplicates(clients)
    /\ num_clients <= client_max_connections
    /\ client_max_connections = 0 => clients = <<>>

\* getConnections() called client_new in this step
AcceptStep == budget'.accepts < budget.accepts

\* C16: num_clients is the number of entries of the registry, each client
\* is in it once, and num_clients never exceeds client_max_connections;
\* client_new called with num_clients >= client_max_connections closes the
\* new descriptor and leaves the registry, the clients and num_clients as
\* they were, and with num_clients below the limit it adds one client;
\* after client_manager_deinit (client_max_connections = 0) the registry
\* is empty, so every later client_new is refused.
C16_ConnectionLimit ==
    [][/\ ConnectionCount
       /\ ConnectionCount'
       /\ AcceptStep =>
            IF num_clients >= client_max_connections
            THEN /\ io'.refused
                 /\ clients' = clients
                 /\ num_clients' = num_clients
                 /\ cl' = [s \in Slots |-> [cl[s] EXCEPT !.out = <<>>,
                                                        !.direct = NoDirect]]
            ELSE /\ ~io'.refused
                 /\ num_clients' = num_clients + 1
                 /\ Tail(clients') = clients
                 /\ Head(clients') \notin Registry]_vars

\* a connection has just been refused with the registry full
C16_Witness ==
    /\ io.refused
    /\ num_clients = client_max_connections
    /\ num_clients > 0

\* a connection has just been refused after client_manager_deinit
C16_WitnessDeinit ==
    /\ io.refused
    /\ client_max_connections = 0

\* client_input_received found no further newline for client s
RestStep(s) ==
    /\ io.pc = "lines"
    /\ io.cur = s
    /\ Newlines(cl[s], io.start) = {}

\* the asserts at the head of client_read
ReadAsserts(c) ==
    /\ c.bufferPos <= bufferLength(c)
    /\ bufferLength(c) < BufferSize

\* C17: however the byte stream is split into reads, the lines handed to
\* client_process_line are the lines the peer sent, each once and in
\* order, with one trailing "\r" removed; the client is closed for
\* overflow exactly when the buffer is full, holds no newline and nothing
\* of it was consumed; and whenever a read can begin, every client has
\* bufferPos <= bufferLength < sizeof(buffer).
C17_LineFraming ==
    [][/\ \A s \in Slots : ~cl'[s].misframed
       /\ io'.pc \in {"out", "pass"} =>
            \A s \in Registry' : ReadAsserts(cl'[s])
       /\ \A s \in Slots :
            RestStep(s) =>
              (s \notin Registry' <=>
                 bufferLength(cl[s]) = BufferSize /\ io.start = 0)]_vars

\* a line of sizeof(buffer) - 1 bytes that followed a shorter line in the
\* same buffer has been handed over
C17_Witness ==
    /\ io.pc = "cmd"
    /\ io.cmd = Fill(BufferSize - 1)
    /\ cl[io.cur].want = <<>>
    /\ budget.lines = MaxFrameLines - 2
    /\ budget.sends = "frame"

\* client_input_received is about to close a client whose buffer is full
\* of one unfinished line
C17_WitnessOverflow ==
    \E s \in Registry :
      RestStep(s) /\ bufferLength(cl[s]) = BufferSize /\ io.start = 0

\* the line client s is about to be handed is accumulated: it is put in
\* front of cmd_list (the list is reversed at command_list_end), adds
\* strlen + 1 to cmd_list_size, is not dispatched and is not answered; or
\* the client is closed because cmd_list_size would exceed the cap
Accumulated(s) ==
    LET size == cl[s].cmd_list_size + Len(LineOf(s)) + 1
    IN \/ /\ s \in Registry'
          /\ cl'[s].cmd_list = <<LineOf(s)>> \o cl[s].cmd_list
          /\ cl'[s].cmd_list_size = size
          /\ cl'[s].cmd_list_OK = cl[s].cmd_list_OK
          /\ cl'[s].out = <<>>
          /\ io'.pc = "lines"
       \/ /\ s \notin Registry'
          /\ size > client_max_command_list_size

\* C18 as stated: in list mode (cmd_list_OK >= 0) every line other than
\* command_list_end is accumulated, noidle, command_list_begin and
\* command_list_ok_begin included.
C18_ListAccumulatesEveryLine ==
    [][\A s \in Slots :
         /\ LineStep(s)
         /\ cl[s].cmd_list_OK >= 0
         /\ LineOf(s) # <<"command_list_end">>
         => Accumulated(s)]_vars

\* C18 amended: in list mode every line other than command_list_end and
\* noidle is accumulated, command_list_begin and command_list_ok_begin
\* included.
C18_ListAccumulatesOtherLines ==
    [][\A s \in Slots :
         /\ LineStep(s)
         /\ cl[s].cmd_list_OK >= 0
         /\ LineOf(s) \notin {<<"command_list_end">>, <<"noidle">>}
         => Accumulated(s)]_vars

\* command_list_begin sent inside an open list has just been accumulated
C18_Witness ==
    /\ io.pc = "lines"
    /\ io.cur \in Registry
    /\ cl[io.cur].cmd_list_OK >= 0
    /\ cl[io.cur].cmd_list # <<>>
    /\ Head(cl[io.cur].cmd_list) = <<"command_list_begin">>
    /\ cl[io.cur].buffer[io.start] = "NUL"

\* client_manager_io builds the descriptor sets in this step: a client's
\* descriptor is in the read set only if the client is live with an empty
\* deferred queue, in the write set only if it is live with a non-empty
\* one, and in at most one of them
SetsAsBuilt ==
    io.pc = "out" /\ io'.pc = "select" =>
      /\ \A s \in Registry :
           /\ cl[s].fd \in io'.rfds =>
                ~client_is_expired(cl[s]) /\ cl[s].deferred_send = <<>>
           /\ cl[s].fd \in io'.wfds =>
                ~client_is_expired(cl[s]) /\ cl[s].deferred_send # <<>>
      /\ io'.rfds \cap io'.wfds = {}

\* client_read is called for client s in this step: bytes of its peer are
\* taken, or the connection is given up
ReadStep(s) ==
    /\ io.pc = "pass"
    /\ io.cur = s
    /\ sock'[s] # sock[s]

\* C19: the sets are built as above, and no client_read is performed on a
\* client whose deferred queue is not empty at the moment of the read,
\* also when client_manager_idle_add runs between the building of the
\* sets and the pass over the clients.
C19_BackpressureFromSelf ==
    [][/\ SetsAsBuilt
       /\ \A s \in Slots :
            ReadStep(s) => cl[s].deferred_send = <<>>]_vars

\* the part of C19 about the sets alone
C19_SetsAsBuilt == [][SetsAsBuilt]_vars

====
